---- MODULE Spec2Model ----
(***************************************************************************)
(* The analytical layers of scoring.py (actual score, optimistic ceiling,  *)
(* seed projection, Monte Carlo win probability, scenario builder) over a  *)
(* meet snapshot, together with the mark parser of scraper.py that the     *)
(* seed ordering rests on.                                                 *)
(*                                                                         *)
(* Strings that the code parses (marks, event names) are sequences of      *)
(* one-character strings.  Real numbers are exact fixed-point values.      *)
(***************************************************************************)
EXTENDS Integers, Sequences, FiniteSets, TLC

VARIABLES
    state,        \* the meet snapshot: events and combined events
    gender,       \* the gender the analysis is run for
    team,         \* the team the scenario builder is asked about
    pc,           \* the layer that ran last
    actual,       \* compute_actual_scores: the TeamScore records
    ceilings,     \* compute_optimistic_ceiling: team -> points
    projections,  \* compute_seed_projection: team -> points / PointsUnit
    ranked,       \* _rank_entries_by_seed of the first event
    scenarios,    \* compute_team_scenarios for team
    leverage,     \* compute_leverage_index: the records, highest leverage first
    team_scores,  \* run_all_analysis: the TeamScore records it returns
    win_probs,    \* compute_win_probability: team -> probability
    win_counts,   \* the simulator's credit per team, in 1 / CreditUnit
    trials,       \* simulation trials completed
    sim,          \* the simulator's locals: event_data, all_teams, and a trial's
                  \* sim_scores, event, remaining_entries and place
    twin          \* a second run of the simulator on the same draws, or <<>>

vars == <<state, gender, team, pc, actual, ceilings, projections, ranked, scenarios,
          leverage, team_scores,
          win_probs, win_counts, trials, sim, twin>>

simulator == <<win_probs, win_counts, trials, sim, twin>>

\* what run_all_analysis returns beside the layers
report == <<leverage, team_scores>>

\* what the simulator reads and never writes
analysis ==
    <<state, gender, team, actual, ceilings, projections, ranked, scenarios, leverage,
      team_scores>>

-----------------------------------------------------------------------------
(* Characters and strings                                                  *)

Digits == <<"0", "1", "2", "3", "4", "5", "6", "7", "8", "9">>

LowerLetters == <<"a", "b", "c", "d", "e", "f", "g", "h", "i", "j", "k", "l", "m", "n", "o", "p", "q", "r", "s", "t", "u", "v", "w", "x", "y", "z">>

UpperLetters == <<"A", "B", "C", "D", "E", "F", "G", "H", "I", "J", "K", "L", "M", "N", "O", "P", "Q", "R", "S", "T", "U", "V", "W", "X", "Y", "Z">>

Range(s) == {s[i] : i \in DOMAIN s}

DigitSet == Range(Digits)

LowerSet == Range(LowerLetters)

UpperSet == Range(UpperLetters)

DigitValue == [c \in DigitSet |-> (CHOOSE i \in DOMAIN Digits : Digits[i] = c) - 1]

ToUpper == [c \in LowerSet |-> UpperLetters[CHOOSE i \in DOMAIN LowerLetters : LowerLetters[i] = c]]

ToLower == [c \in UpperSet |-> LowerLetters[CHOOSE i \in DOMAIN UpperLetters : UpperLetters[i] = c]]

IsDigit(c) == c \in DigitSet

DigitVal(c) == DigitValue[c]

IsLetter(c) == c \in LowerSet \/ c \in UpperSet

\* "\xa0" is written NBSP; str.strip() and \s treat it as whitespace.
IsSpace(c) == c \in {" ", "NBSP"}

UpperChar(c) == IF c \in LowerSet THEN ToUpper[c] ELSE c

LowerChar(c) == IF c \in UpperSet THEN ToLower[c] ELSE c

\* s[a..b], empty when a > b
Slice(s, a, b) == IF a > b THEN <<>> ELSE SubSeq(s, a, b)

\* a sequence given elementwise, as a list whose elements are evaluated once
List(s) == s \o <<>>

Upper(s) == List([i \in DOMAIN s |-> UpperChar(s[i])])

Lower(s) == List([i \in DOMAIN s |-> LowerChar(s[i])])

RECURSIVE LStrip(_)
LStrip(s) == IF s # <<>> /\ IsSpace(Head(s)) THEN LStrip(Tail(s)) ELSE s

RECURSIVE RStrip(_)
RStrip(s) == IF s # <<>> /\ IsSpace(s[Len(s)]) THEN RStrip(Slice(s, 1, Len(s) - 1)) ELSE s

Strip(s) == RStrip(LStrip(s))

\* str.replace(old, "") for a one-character old
RECURSIVE RemoveChar(_, _)
RemoveChar(s, c) ==
    IF s = <<>> THEN <<>>
    ELSE IF Head(s) = c THEN RemoveChar(Tail(s), c)
    ELSE <<Head(s)>> \o RemoveChar(Tail(s), c)

\* str.replace("  ", " "): one left-to-right pass over non-overlapping pairs
RECURSIVE ReplaceDoubleSpace(_)
ReplaceDoubleSpace(s) ==
    IF Len(s) < 2 THEN s
    ELSE IF s[1] = " " /\ s[2] = " " THEN <<" ">> \o ReplaceDoubleSpace(Slice(s, 3, Len(s)))
    ELSE <<Head(s)>> \o ReplaceDoubleSpace(Tail(s))

\* first index of c in s, 0 when absent
IndexOf(s, c) ==
    IF c \in Range(s) THEN CHOOSE i \in DOMAIN s : s[i] = c /\ \A j \in 1..(i - 1) : s[j] # c
    ELSE 0

\* last index of c in s, 0 when absent
LastIndexOf(s, c) ==
    IF c \in Range(s) THEN CHOOSE i \in DOMAIN s : s[i] = c /\ \A j \in (i + 1)..Len(s) : s[j] # c
    ELSE 0

\* str.split(sep)[0] and str.split(sep)[1] for a one-character sep present in s
SplitFirst(s, c) == Slice(s, 1, IndexOf(s, c) - 1)

SplitSecond(s, c) ==
    LET rest == Slice(s, IndexOf(s, c) + 1, Len(s))
    IN  IF c \in Range(rest) THEN SplitFirst(rest, c) ELSE rest

\* k in name, for strings as sequences
Contains(name, k) ==
    \E i \in 1..(Len(name) - Len(k) + 1) : Slice(name, i, i + Len(k) - 1) = k

-----------------------------------------------------------------------------
(* Real numbers: a value is whole + frac / FracUnit with 0 <= frac <       *)
(* FracUnit, so 1e9 and a mark in ten-thousandths are both exact.          *)

FracUnit == 10 * 10 * 10 * 10

None == [ok |-> FALSE]

Num(w, f) == [ok |-> TRUE, w |-> w, f |-> f]

Neg(v) == IF v.f = 0 THEN Num(0 - v.w, 0) ELSE Num(0 - v.w - 1, FracUnit - v.f)

Add(a, b) ==
    IF a.f + b.f >= FracUnit THEN Num(a.w + b.w + 1, a.f + b.f - FracUnit)
    ELSE Num(a.w + b.w, a.f + b.f)

\* k * v for an integer k >= 0
Times(k, v) == Num(k * v.w + ((k * v.f) \div FracUnit), (k * v.f) % FracUnit)

Less(a, b) == a.w < b.w \/ (a.w = b.w /\ a.f < b.f)

\* abs(a - b) < 0.001
Within001(a, b) ==
    LET dw == a.w - b.w
    IN  /\ dw \in {-1, 0, 1}
        /\ LET d == dw * FracUnit + a.f - b.f
           IN  d > 0 - (FracUnit \div 1000) /\ d < FracUnit \div 1000

RECURSIVE DigitsValue(_, _)
DigitsValue(s, acc) == IF s = <<>> THEN acc ELSE DigitsValue(Tail(s), acc * 10 + DigitVal(Head(s)))

AllDigits(s) == \A i \in DOMAIN s : IsDigit(s[i])

\* fraction digits to ten-thousandths (the marks of the model carry at most four)
FracValue(s) ==
    LET d(i) == IF i <= Len(s) THEN DigitVal(s[i]) ELSE 0
    IN  d(1) * 1000 + d(2) * 100 + d(3) * 10 + d(4)

\* float(text) on the decimal literals [+-]digits[.digits]; anything else
\* raises ValueError, which both callers turn into None
ParseUnsigned(s) ==
    LET dot == IndexOf(s, ".")
        ip  == IF dot = 0 THEN s ELSE Slice(s, 1, dot - 1)
        fp  == IF dot = 0 THEN <<>> ELSE Slice(s, dot + 1, Len(s))
    IN  IF AllDigits(ip) /\ AllDigits(fp) /\ Len(ip) + Len(fp) > 0 /\ Len(fp) <= 4
        THEN Num(DigitsValue(ip, 0), FracValue(fp))
        ELSE None

ParseFloat(text) ==
    LET s == Strip(text)
    IN  IF s = <<>> THEN None
        ELSE IF Head(s) = "-"
             THEN LET v == ParseUnsigned(Tail(s)) IN IF v.ok THEN Neg(v) ELSE None
        ELSE IF Head(s) = "+" THEN ParseUnsigned(Tail(s))
        ELSE ParseUnsigned(s)

-----------------------------------------------------------------------------
(* scraper.py: the mark parser                                             *)

_normalize_mark(mark) == ReplaceDoubleSpace(RemoveChar(Strip(mark), "NBSP"))

STATUS_CODES ==
    { <<"D", "N", "S">>, <<"D", "N", "F">>, <<"D", "Q">>, <<"N", "H">>, <<"N", "M">>,
      <<"F", "O", "U", "L">>, <<>> }

\* re.sub(r"\s*\(.*\)", "", mark): from the whitespace before the first "("
\* through the last ")" (".*" is greedy), when a ")" follows that "("
RemoveParens(s) ==
    LET open  == IndexOf(s, "(")
        close == LastIndexOf(s, ")")
    IN  IF open = 0 \/ close < open THEN s
        ELSE RStrip(Slice(s, 1, open - 1)) \o Slice(s, close + 1, Len(s))

\* re.sub(r"[a-zA-Z]$", "", mark)
RemoveTrailingLetter(s) ==
    IF s # <<>> /\ IsLetter(s[Len(s)]) THEN Slice(s, 1, Len(s) - 1) ELSE s

\* re.match(r"^\d+-\d+", mark)
RECURSIVE SkipDigits(_)
SkipDigits(s) == IF s # <<>> /\ IsDigit(Head(s)) THEN SkipDigits(Tail(s)) ELSE s

IsFeetInches(s) ==
    LET rest == SkipDigits(s)
    IN  /\ Len(rest) < Len(s)
        /\ Len(rest) >= 2
        /\ rest[1] = "-"
        /\ IsDigit(rest[2])

\* the two re.sub and the strip that follow the status-code test
CleanMark(mark0) == Strip(RemoveTrailingLetter(RemoveParens(mark0)))

_mark_to_seconds(raw) ==
    LET mark0 == Upper(_normalize_mark(raw))
    IN  IF mark0 \in STATUS_CODES THEN None
        ELSE LET mark == CleanMark(mark0)
             IN  IF IsFeetInches(mark)
                 THEN LET feet   == ParseFloat(SplitFirst(mark, "-"))
                          inches == ParseFloat(SplitSecond(mark, "-"))
                      IN  IF feet.ok /\ inches.ok THEN Neg(Add(Times(12, feet), inches))
                          ELSE None
                 ELSE IF ":" \in Range(mark)
                 THEN LET minutes == ParseFloat(SplitFirst(mark, ":"))
                          seconds == ParseFloat(SplitSecond(mark, ":"))
                      IN  IF minutes.ok /\ seconds.ok
                          THEN Add(Times(60, minutes), seconds)
                          ELSE None
                 ELSE ParseFloat(mark)

-----------------------------------------------------------------------------
(* The snapshot (data_model.py) and the configuration (config.py)          *)
(*                                                                         *)
(* An event is [event_name, base_event_name, gender, round_type, status,   *)
(* entries]; an entry is [name, team, effective_seed, final_place], the    *)
(* athlete's fields beside the entry's.  An absent final_place is 0 and an *)
(* absent effective_seed is the empty string: the code tests both for      *)
(* truth only.  An entry is identified by its index in event.entries.      *)

PLACE_POINTS == <<10, 8, 6, 5, 4, 3, 2, 1>>

\* place in PLACE_POINTS
InTable(place) == place \in DOMAIN PLACE_POINTS

\* PLACE_POINTS.get(place, 0)
PointsGet(place) == IF InTable(place) THEN PLACE_POINTS[place] ELSE 0

\* the indices i, in order, with keep[i]: a comprehension with a condition
RECURSIVE SelectIdx(_, _)
SelectIdx(keep, i) ==
    IF i > Len(keep) THEN <<>>
    ELSE (IF keep[i] THEN <<i>> ELSE <<>>) \o SelectIdx(keep, i + 1)

IsCompletedFinal(e, g) == e.gender = g /\ e.round_type = "FINAL" /\ e.status = "FINAL"

IsUpcomingFinal(e, g) ==
    e.gender = g /\ e.round_type = "FINAL" /\ e.status # "FINAL" /\ Len(e.entries) > 0

\* indices into st.events, in snapshot order
get_completed_finals(st, g) ==
    SelectIdx([i \in DOMAIN st.events |-> IsCompletedFinal(st.events[i], g)], 1)

get_upcoming_finals(st, g) ==
    SelectIdx([i \in DOMAIN st.events |-> IsUpcomingFinal(st.events[i], g)], 1)

\* CombinedEventResult.is_complete
is_complete(combined) == \A i \in DOMAIN combined.athletes : combined.athletes[i].final_place # 0

-----------------------------------------------------------------------------
(* scoring.py: seed ordering                                               *)

field_keywords ==
    << <<"j", "u", "m", "p">>, <<"v", "a", "u", "l", "t">>, <<"t", "h", "r", "o", "w">>,
       <<"s", "h", "o", "t">>, <<"w", "e", "i", "g", "h", "t">>,
       <<"d", "i", "s", "c", "u", "s">>, <<"j", "a", "v", "e", "l", "i", "n">>,
       <<"h", "a", "m", "m", "e", "r">> >>

Sentinel == Num(1000000000, 0)

IsFieldEvent(event) ==
    LET name == Lower(event.base_event_name)
    IN  \E k \in DOMAIN field_keywords : Contains(name, field_keywords[k])

\* the key of a parsed mark: val is None, or a number
KeyOf(val, unseeded, event) ==
    IF ~val.ok THEN unseeded
    ELSE IF IsFieldEvent(event) THEN Neg(val)
    ELSE val

\* the key with 0 for an unseedable athlete
_seed_sort_key_ZeroUnseeded(entry, event) ==
    KeyOf(_mark_to_seconds(entry.effective_seed), Num(0, 0), event)

_seed_sort_key(entry, event) ==
    KeyOf(_mark_to_seconds(entry.effective_seed), Sentinel, event)

\* an unstable sort: x goes before the first y with key(x) <= key(y)
RECURSIVE InsertByKey_Unstable(_, _, _)
InsertByKey_Unstable(sorted, x, key) ==
    IF sorted = <<>> THEN <<x>>
    ELSE IF ~Less(key[Head(sorted)], key[x]) THEN <<x>> \o sorted
    ELSE <<Head(sorted)>> \o InsertByKey_Unstable(Tail(sorted), x, key)

\* sorted(): stable, so x goes before the first y with key(x) < key(y)
RECURSIVE InsertByKey(_, _, _)
InsertByKey(sorted, x, key) ==
    IF sorted = <<>> THEN <<x>>
    ELSE IF Less(key[x], key[Head(sorted)]) THEN <<x>> \o sorted
    ELSE <<Head(sorted)>> \o InsertByKey(Tail(sorted), x, key)

RECURSIVE SortedByKey(_, _)
SortedByKey(seq, key) ==
    IF seq = <<>> THEN <<>>
    ELSE InsertByKey(SortedByKey(Slice(seq, 1, Len(seq) - 1), key), seq[Len(seq)], key)

\* [e for e in event.entries if e.athlete.name], as indices into event.entries
NamedEntries(event) == SelectIdx([i \in DOMAIN event.entries |-> event.entries[i].name # ""], 1)

\* the sort keys of the entries of an event, by index
SeedKeys(event) ==
    List([i \in DOMAIN event.entries |-> _seed_sort_key(event.entries[i], event)])

_rank_entries_by_seed(event) == SortedByKey(NamedEntries(event), SeedKeys(event))

-----------------------------------------------------------------------------
(* scoring.py: 1. current actual score                                     *)
(*                                                                         *)
(* dict[str, TeamScore] is the sequence of its TeamScore records in        *)
(* insertion order, one per team.                                          *)

HasTeam(scores, t) == \E i \in DOMAIN scores : scores[i].team = t

\* actual.get(team, TeamScore(team=team, gender=gender)).actual_points
ActualPoints(scores, t) ==
    IF HasTeam(scores, t)
    THEN scores[CHOOSE i \in DOMAIN scores : scores[i].team = t].actual_points
    ELSE 0

ActualTeams(scores) == {scores[i].team : i \in DOMAIN scores}

\* ts = _get_or_create(a.team); ts.actual_points += pts; ts.events_scored.append(...)
Credit(scores, t, pts, note) ==
    LET created == IF HasTeam(scores, t) THEN scores
                   ELSE Append(scores, [team |-> t, actual_points |-> 0, events_scored |-> <<>>])
    IN  [i \in DOMAIN created |->
            IF created[i].team = t
            THEN [created[i] EXCEPT !.actual_points = @ + pts,
                                    !.events_scored = Append(@, note)]
            ELSE created[i]]

\* the loop crediting every athlete that has a place, in the table or not
RECURSIVE ScoreAthletes_AnyPlace(_, _, _, _)
ScoreAthletes_AnyPlace(scores, athletes, event_name, i) ==
    IF i > Len(athletes) THEN scores
    ELSE LET a == athletes[i]
         IN  IF a.final_place # 0
             THEN ScoreAthletes_AnyPlace(Credit(scores, a.team, PointsGet(a.final_place),
                                                <<event_name, a.final_place>>),
                                         athletes, event_name, i + 1)
             ELSE ScoreAthletes_AnyPlace(scores, athletes, event_name, i + 1)

\* the loop over the athletes of one completed final or combined event
RECURSIVE ScoreAthletes(_, _, _, _)
ScoreAthletes(scores, athletes, event_name, i) ==
    IF i > Len(athletes) THEN scores
    ELSE LET a == athletes[i]
         IN  IF a.final_place # 0 /\ InTable(a.final_place)
             THEN ScoreAthletes(Credit(scores, a.team, PLACE_POINTS[a.final_place],
                                       <<event_name, a.final_place>>),
                                athletes, event_name, i + 1)
             ELSE ScoreAthletes(scores, athletes, event_name, i + 1)

RECURSIVE ScoreFinals(_, _, _)
ScoreFinals(scores, st, finals) ==
    IF finals = <<>> THEN scores
    ELSE LET event == st.events[Head(finals)]
         IN  ScoreFinals(ScoreAthletes(scores, event.entries, event.event_name, 1),
                         st, Tail(finals))

RECURSIVE ScoreCombined(_, _, _, _)
ScoreCombined(scores, st, g, k) ==
    IF k > Len(st.combined_events) THEN scores
    ELSE LET combined == st.combined_events[k]
         IN  IF combined.gender # g \/ ~is_complete(combined)
             THEN ScoreCombined(scores, st, g, k + 1)
             ELSE ScoreCombined(ScoreAthletes(scores, combined.athletes, combined.event_name, 1),
                                st, g, k + 1)

compute_actual_scores(st, g) ==
    ScoreCombined(ScoreFinals(<<>>, st, get_completed_finals(st, g)), st, g, 1)

-----------------------------------------------------------------------------
(* scoring.py: 2. optimistic ceiling                                       *)

\* d[k] += v on a defaultdict(int); d[k] = d.get(k, 0) + v on a dict
DictAdd(d, k, v) ==
    [x \in DOMAIN d \cup {k} |-> (IF x \in DOMAIN d THEN d[x] ELSE 0) + (IF x = k THEN v ELSE 0)]

\* team names in the order sorted() gives them
TEAM_ORDER == <<"", "A", "B", "C", "D">>

SortedTeams(S) == LET picked == SelectIdx([i \in DOMAIN TEAM_ORDER |-> TEAM_ORDER[i] \in S], 1)
                  IN  [k \in DOMAIN picked |-> TEAM_ORDER[picked[k]]]

\* team_athletes[entry.athlete.team] += 1 over the entries
TeamCount(event, t) == Cardinality({i \in DOMAIN event.entries : event.entries[i].team = t})

EventTeams(event) == {event.entries[i].team : i \in DOMAIN event.entries}

\* for _ in range(count): ...; returns <<ceilings, place>>
RECURSIVE CeilingAthletes(_, _, _, _)
CeilingAthletes(ceil, t, count, place) ==
    IF count = 0 THEN <<ceil, place>>
    ELSE LET c1 == IF InTable(place) THEN DictAdd(ceil, t, PLACE_POINTS[place]) ELSE ceil
             p1 == IF InTable(place) THEN place + 1 ELSE place
         IN  IF p1 > 8 THEN <<c1, p1>> ELSE CeilingAthletes(c1, t, count - 1, p1)

\* for team in team_list: ...
RECURSIVE CeilingTeams(_, _, _, _)
CeilingTeams(ceil, event, team_list, place) ==
    IF team_list = <<>> THEN ceil
    ELSE LET r == CeilingAthletes(ceil, Head(team_list), TeamCount(event, Head(team_list)), place)
         IN  IF r[2] > 8 THEN r[1] ELSE CeilingTeams(r[1], event, Tail(team_list), r[2])

RECURSIVE CeilingEvents(_, _, _)
CeilingEvents(ceil, st, upcoming) ==
    IF upcoming = <<>> THEN ceil
    ELSE LET event == st.events[Head(upcoming)]
         IN  CeilingEvents(CeilingTeams(ceil, event, SortedTeams(EventTeams(event)), 1),
                           st, Tail(upcoming))

\* every truthy team of every entry of every event
AllEntryTeams(st) ==
    UNION {EventTeams(st.events[e]) : e \in DOMAIN st.events} \ {""}

compute_optimistic_ceiling(act, st, g) ==
    CeilingEvents([t \in AllEntryTeams(st) |-> ActualPoints(act, t)], st, get_upcoming_finals(st, g))

-----------------------------------------------------------------------------
(* scoring.py: 3. seed-based projection                                    *)
(*                                                                         *)
(* A projection is a fraction of a point: it is kept in units of           *)
(* 1 / PointsUnit, which every tied-block length 1..8 divides.             *)

PointsUnit == 8 * 3 * 5 * 7

RECURSIVE SumSet(_, _)
\* sum(d.values()): the sum of f[x] over the finite set S
SumSet(S, f) == IF S = {} THEN 0 ELSE LET x == CHOOSE y \in S : TRUE IN f[x] + SumSet(S \ {x}, f)

RECURSIVE SumSeq(_)
SumSeq(seq) == IF seq = <<>> THEN 0 ELSE Head(seq) + SumSeq(Tail(seq))

\* list(range(lo, hi))
RangeList(lo, hi) == List([k \in 1..(IF hi > lo THEN hi - lo ELSE 0) |-> lo + k - 1])

Min(a, b) == IF a < b THEN a ELSE b

\* the inner while: the first j > i whose key is not within 0.001 of current_key
RECURSIVE TieEnd(_, _, _, _)
TieEnd(rk, keys, current_key, j) ==
    IF j <= Len(rk) /\ Within001(keys[rk[j]], current_key)
    THEN TieEnd(rk, keys, current_key, j + 1)
    ELSE j

\* sum(PLACE_POINTS.get(p, 0) for p in tied_places) / len(tied_places) if tied_places else 0
AvgPts(tied_places) ==
    IF tied_places = <<>> THEN 0
    ELSE (SumSeq([k \in DOMAIN tied_places |-> PointsGet(tied_places[k])]) * PointsUnit)
             \div Len(tied_places)

\* for entry in ranked[i:j]: ... (i and j are 1-based here, j exclusive)
RECURSIVE ProjectBlock(_, _, _, _, _, _, _)
ProjectBlock(proj, event, rk, k, j, tied_places, avg_pts) ==
    IF k >= j THEN proj
    ELSE LET scores == \E x \in DOMAIN tied_places : PointsGet(tied_places[x]) > 0
             p1 == IF scores THEN DictAdd(proj, event.entries[rk[k]].team, avg_pts) ELSE proj
         IN  ProjectBlock(p1, event, rk, k + 1, j, tied_places, avg_pts)

\* while i < len(ranked) and place <= 8: ...
RECURSIVE ProjectRanked(_, _, _, _, _, _)
ProjectRanked(proj, event, rk, keys, i, place) ==
    IF ~(i <= Len(rk) /\ place <= 8) THEN proj
    ELSE LET j == TieEnd(rk, keys, keys[rk[i]], i + 1)
             tied_count == j - i
             tied_places == RangeList(place, Min(place + tied_count, 9))
             avg_pts == AvgPts(tied_places)
         IN  ProjectRanked(ProjectBlock(proj, event, rk, i, j, tied_places, avg_pts),
                           event, rk, keys, j, place + tied_count)

RECURSIVE ProjectEvents(_, _, _)
ProjectEvents(proj, st, upcoming) ==
    IF upcoming = <<>> THEN proj
    ELSE LET event == st.events[Head(upcoming)]
         IN  ProjectEvents(ProjectRanked(proj, event, _rank_entries_by_seed(event),
                                         SeedKeys(event), 1, 1),
                           st, Tail(upcoming))

\* the projection started from zero instead of the actual points
compute_seed_projection_NoBase(act, st, g) ==
    ProjectEvents([t \in ActualTeams(act) |-> 0], st, get_upcoming_finals(st, g))

compute_seed_projection(act, st, g) ==
    ProjectEvents([t \in ActualTeams(act) |-> ActualPoints(act, t) * PointsUnit],
                  st, get_upcoming_finals(st, g))

-----------------------------------------------------------------------------
(* scoring.py: 6. scenario builder                                         *)

\* the entry's position in the event's own list taken for its projected place
RankOrNine_ByPosition(rk, idx) == idx

\* rank_map.get(id(entry), 9)
RankOrNine(rk, idx) ==
    IF \E k \in DOMAIN rk : rk[k] = idx THEN CHOOSE k \in DOMAIN rk : rk[k] = idx ELSE 9

\* [e for e in event.entries if e.athlete.team == team]
TeamEntries(event, t) ==
    SelectIdx([i \in DOMAIN event.entries |-> event.entries[i].team = t], 1)

\* the free places with the team's own projected places taken as occupied too
AvailablePlaces_OwnOccupied(event, rk, t) ==
    LET occupied == {RankOrNine(rk, rk[k]) : k \in DOMAIN rk}
    IN  SelectIdx([p \in 1..8 |-> p \notin occupied], 1)

\* sorted(p for p in range(1, 9) if p not in occupied)
AvailablePlaces(event, rk, t) ==
    LET occupied == {RankOrNine(rk, rk[k]) : k \in {x \in DOMAIN rk : event.entries[rk[x]].team # t}}
        free == SelectIdx([p \in 1..8 |-> p \notin occupied], 1)
    IN  free

\* one row of the breakdown, given the team's entries and the seed ranking rk
RowOf(event, t, team_entries, rk) ==
    LET details == List([k \in DOMAIN team_entries |->
                      LET entry == event.entries[team_entries[k]]
                          proj_place == RankOrNine(rk, team_entries[k])
                      IN  [athlete |-> entry.name,
                           seed_mark |-> IF entry.effective_seed = <<>> THEN <<"N", "/", "A">>
                                         ELSE entry.effective_seed,
                           proj_place |-> proj_place,
                           seed_pts |-> PointsGet(proj_place)]])
        available_places == AvailablePlaces(event, rk, t)
    IN  [event |-> event.event_name,
         athletes |-> details,
         scenario_a_pts |-> SumSeq([k \in DOMAIN details |-> details[k].seed_pts]),
         scenario_b_pts |-> SumSeq([k \in 1..Min(Len(team_entries), Len(available_places)) |->
                                       PointsGet(available_places[k])]),
         scenario_c_pts |-> 0]

ScenarioRow(event, t) == RowOf(event, t, TeamEntries(event, t), _rank_entries_by_seed(event))

RECURSIVE ScenarioRows(_, _, _)
ScenarioRows(st, t, upcoming) ==
    IF upcoming = <<>> THEN <<>>
    ELSE LET event == st.events[Head(upcoming)]
         IN  (IF TeamEntries(event, t) = <<>> THEN <<>> ELSE <<ScenarioRow(event, t)>>)
             \o ScenarioRows(st, t, Tail(upcoming))

\* the totals over the breakdown
Totals(t, base_pts, breakdown) ==
        [team |-> t,
         current |-> base_pts,
         scenario_a |-> base_pts + SumSeq([k \in DOMAIN breakdown |-> breakdown[k].scenario_a_pts]),
         scenario_b |-> base_pts + SumSeq([k \in DOMAIN breakdown |-> breakdown[k].scenario_b_pts]),
         scenario_c |-> base_pts + SumSeq([k \in DOMAIN breakdown |-> breakdown[k].scenario_c_pts]),
         breakdown |-> breakdown]

compute_team_scenarios(t, act, st, g) ==
    Totals(t, ActualPoints(act, t), ScenarioRows(st, t, get_upcoming_finals(st, g)))

-----------------------------------------------------------------------------
(* scoring.py: 4. leverage index                                           *)

TopCount == 5

\* a sequence without its last element
Front(seq) == Slice(seq, 1, Len(seq) - 1)

\* an unstable descending sort: x goes before the first y with key(y) <= key(x)
RECURSIVE InsertDescending_Unstable(_, _)
InsertDescending_Unstable(sorted, x) ==
    IF sorted = <<>> THEN <<x>>
    ELSE IF Head(sorted)[1] <= x[1] THEN <<x>> \o sorted
    ELSE <<Head(sorted)>> \o InsertDescending_Unstable(Tail(sorted), x)

\* sorted(..., reverse=True) on pairs <<key, item>>: stable, so x goes before
\* the first y with key(y) < key(x)
RECURSIVE InsertDescending(_, _)
InsertDescending(sorted, x) ==
    IF sorted = <<>> THEN <<x>>
    ELSE IF Head(sorted)[1] < x[1] THEN <<x>> \o sorted
    ELSE <<Head(sorted)>> \o InsertDescending(Tail(sorted), x)

RECURSIVE SortedDescending(_)
SortedDescending(pairs) ==
    IF pairs = <<>> THEN <<>>
    ELSE InsertDescending(SortedDescending(Front(pairs)), pairs[Len(pairs)])

\* the items of sorted pairs
Items(pairs) == List([k \in DOMAIN pairs |-> pairs[k][2]])

\* [t for t, _ in sorted_teams[:5]]
TopTeams(act) ==
    LET sorted_teams ==
            SortedDescending(List([i \in DOMAIN act |-> <<act[i].actual_points, act[i].team>>]))
    IN  Items(Slice(sorted_teams, 1, Min(TopCount, Len(sorted_teams))))

\* sum(PLACE_POINTS.get(p, 0) for p in range(lo, hi))
PointsOver(lo, hi) == SumSeq([k \in DOMAIN RangeList(lo, hi) |-> PointsGet(RangeList(lo, hi)[k])])

\* the parts of the headline string
_leverage_headline(event, top_teams, total_pts, max_swing) ==
    [event_name |-> event.event_name, total_pts |-> total_pts,
     teams |-> Slice(top_teams, 1, Min(2, Len(top_teams))), max_swing |-> max_swing]

\* the record of one upcoming final, e its index in the snapshot
Swing(e, event, top_teams_in_event, n_teams, max_swing, total_pts) ==
    [event_name |-> event.event_name,
     event |-> e,
     leverage_score |-> Len(top_teams_in_event) * max_swing,
     max_swing |-> max_swing,
     total_pts_available |-> total_pts,
     n_teams |-> n_teams,
     top_teams_in_event |-> top_teams_in_event,
     headline |-> _leverage_headline(event, top_teams_in_event, total_pts, max_swing)]

LeverageOf(st, e, top_teams) ==
    LET event == st.events[e]
        picked == SelectIdx([k \in DOMAIN top_teams |-> top_teams[k] \in EventTeams(event)], 1)
    IN  Swing(e, event,
              List([k \in DOMAIN picked |-> top_teams[picked[k]]]),
              Cardinality(EventTeams(event)),
              PLACE_POINTS[1] - PointsGet(Min(8, Len(event.entries))),
              PointsOver(1, Min(8, Len(event.entries)) + 1))

\* the loop over the upcoming finals, skipping those without entries
RECURSIVE LeverageResults(_, _, _)
LeverageResults(st, upcoming, top_teams) ==
    IF upcoming = <<>> THEN <<>>
    ELSE (IF st.events[Head(upcoming)].entries = <<>> THEN <<>>
          ELSE <<LeverageOf(st, Head(upcoming), top_teams)>>)
         \o LeverageResults(st, Tail(upcoming), top_teams)

ByLeverage(results) == List([k \in DOMAIN results |-> <<results[k].leverage_score, results[k]>>])

compute_leverage_index(st, g, act) ==
    Items(SortedDescending(ByLeverage(LeverageResults(st, get_upcoming_finals(st, g),
                                                       TopTeams(act)))))

-----------------------------------------------------------------------------
(* scoring.py: 5. Monte Carlo win probability                              *)
(*                                                                         *)
(* A probability is an exact fraction in lowest terms.  A strength         *)
(* 0.65^(rank-1) of an event with n ranked entrants is the integer         *)
(* 13^(rank-1) * 20^(n-rank), in units of 1 / 20^(n-1).  The credit of a   *)
(* trial is kept in units of 1 / CreditUnit, which every number of         *)
(* leaders 1..8 divides.  random.random() returns draw / DrawSteps for a   *)
(* draw in 0..DrawSteps-1.                                                 *)

DrawSteps == 8

CreditUnit == 8 * 3 * 5 * 7

RECURSIVE GCD(_, _)
GCD(a, b) == IF b = 0 THEN a ELSE GCD(b, a % b)

\* n / d in lowest terms
Ratio(n, d) == LET g == GCD(n, d) IN [num |-> n \div g, den |-> d \div g]

\* strengths are kept to six decimal places, in units of 1 / StrengthUnit
StrengthUnit == 1000 * 1000

\* 0.65 ** k
RECURSIVE Pow(_)
Pow(k) == IF k = 0 THEN StrengthUnit ELSE (65 * Pow(k - 1)) \div 100

\* in hundredths
_get_top_seed_win_prob(event) ==
    LET name == Lower(event.base_event_name)
        has(k) == Contains(name, k)
    IN  IF has(<<"6", "0", "m">>) /\ ~has(<<"h", "u", "r", "d", "l", "e">>) THEN 42
        ELSE IF has(<<"2", "0", "0", "m">>) THEN 40
        ELSE IF has(<<"4", "0", "0", "m">>) THEN 38
        ELSE IF has(<<"h", "u", "r", "d", "l", "e">>) THEN 45
        ELSE IF has(<<"8", "0", "0", "m">>) THEN 30
        ELSE IF has(<<"m", "i", "l", "e">>) \/ has(<<"1", "0", "0", "0", "m">>) THEN 30
        ELSE IF has(<<"3", "0", "0", "0", "m">>) \/ has(<<"5", "0", "0", "0", "m">>) THEN 35
        ELSE IF has(<<"r", "e", "l", "a", "y">>) THEN 40
        ELSE 40

\* decay = 0.65; top_seed_prob is not used
_seed_rank_to_strength(rank, n_athletes, top_seed_prob) ==
    IF n_athletes <= 1 THEN StrengthUnit
    ELSE Pow(rank - 1)

\* [e for e in state.get_upcoming_finals(gender) if e.entries]
UpcomingWithEntries(st, g) ==
    LET finals == get_upcoming_finals(st, g)
        kept == SelectIdx([k \in DOMAIN finals |-> st.events[finals[k]].entries # <<>>], 1)
    IN  [k \in DOMAIN kept |-> finals[kept[k]]]

\* the distribution with all of each winner's probability unsplit
DegenerateDistribution_Unsplit(act) ==
    LET max_pts == CHOOSE v \in {act[i].actual_points : i \in DOMAIN act} :
                       \A i \in DOMAIN act : v >= act[i].actual_points
        winners == {t \in ActualTeams(act) : ActualPoints(act, t) = max_pts}
    IN  IF act = <<>> THEN <<>>
        ELSE [t \in ActualTeams(act) |-> IF t \in winners THEN Ratio(1, 1) ELSE Ratio(0, 1)]

\* the branch taken when nothing is left to simulate
DegenerateDistribution(act) ==
    LET max_pts == CHOOSE v \in {act[i].actual_points : i \in DOMAIN act} :
                       \A i \in DOMAIN act : v >= act[i].actual_points
        winners == {t \in ActualTeams(act) : ActualPoints(act, t) = max_pts}
    IN  IF act = <<>> THEN <<>>
        ELSE [t \in ActualTeams(act) |->
                 IF t \in winners THEN Ratio(1, Cardinality(winners)) ELSE Ratio(0, 1)]

\* one tuple of event_data: the event, its ranked entries and their probabilities,
\* each probability a pair <<strength, total_strength>>
Strengths(n, top_prob) == List([i \in 1..n |-> _seed_rank_to_strength(i, n, top_prob)])

Probs(strengths, total_strength) ==
    List([i \in DOMAIN strengths |-> <<strengths[i], total_strength>>])

EventTuple(e, rk, strengths) ==
    [event |-> e, ranked |-> rk, probs |-> Probs(strengths, SumSeq(strengths))]

EventRanked(e, rk, top_prob) == EventTuple(e, rk, Strengths(Len(rk), top_prob))

EventData(st, e) ==
    EventRanked(e, _rank_entries_by_seed(st.events[e]), _get_top_seed_win_prob(st.events[e]))

\* set(actual.keys()) and the team of every ranked entry
SimTeams(act, st, event_data) ==
    ActualTeams(act) \cup
    UNION { {st.events[event_data[k].event].entries[event_data[k].ranked[i]].team :
                i \in DOMAIN event_data[k].ranked} : k \in DOMAIN event_data }

\* list(zip(ranked, probs))
Zip(ed) == List([i \in DOMAIN ed.ranked |-> <<ed.ranked[i], ed.probs[i]>>])

\* sum(p for _, p in remaining_entries), as a numerator over the common total_strength
RemainingTotal(remaining_entries) ==
    SumSeq([i \in DOMAIN remaining_entries |-> remaining_entries[i][2][1]])

\* the walk of the cumulative probability: r <= cumulative, with
\* r = (draw / DrawSteps) * total, both sides scaled by DrawSteps
RECURSIVE ChosenIdx(_, _, _, _, _)
ChosenIdx(remaining_entries, draw, total, cumulative, idx) ==
    IF idx > Len(remaining_entries) THEN 1
    ELSE LET c == cumulative + remaining_entries[idx][2][1]
         IN  IF draw * total <= DrawSteps * c THEN idx
             ELSE ChosenIdx(remaining_entries, draw, total, c, idx + 1)

\* remaining_entries.pop(chosen_idx), the list that is left
Pop(seq, idx) == Slice(seq, 1, idx - 1) \o Slice(seq, idx + 1, Len(seq))

\* a while loop without the cap on the place
Placing_NoCap(s) ==
    s.remaining_entries # <<>> /\ RemainingTotal(s.remaining_entries) > 0

\* the while loop goes on
Placing(s) ==
    s.remaining_entries # <<>> /\ s.place <= 8 /\ RemainingTotal(s.remaining_entries) > 0

\* the orders a set can be iterated in
Orders(S) == {o \in [1..Cardinality(S) -> S] : Range(o) = S}

\* leaders cut to the first of them
Leaders_First(sim_scores, order) ==
    LET at_max == SelectIdx([k \in DOMAIN order |->
                      \A u \in DOMAIN sim_scores : sim_scores[order[k]] >= sim_scores[u]], 1)
    IN  IF at_max = <<>> THEN {} ELSE {order[at_max[1]]}

\* leaders = [t for t, s in sim_scores.items() if s == max_score]: the teams at the
\* maximum, met in the order the dict was built in
Leaders(sim_scores, order) ==
    LET at_max == SelectIdx([k \in DOMAIN order |->
                      \A u \in DOMAIN sim_scores : sim_scores[order[k]] >= sim_scores[u]], 1)
    IN  {order[at_max[k]] : k \in DOMAIN at_max}

\* every leader credited with a whole win
CreditLeaders_Whole(counts, leaders) ==
    [t \in DOMAIN counts \cup leaders |->
        (IF t \in DOMAIN counts THEN counts[t] ELSE 0) +
        (IF t \in leaders THEN CreditUnit ELSE 0)]

\* for t in leaders: win_counts[t] += 1.0 / len(leaders)
CreditLeaders(counts, leaders) ==
    [t \in DOMAIN counts \cup leaders |->
        (IF t \in DOMAIN counts THEN counts[t] ELSE 0) +
        (IF t \in leaders THEN CreditUnit \div Cardinality(leaders) ELSE 0)]

\* {t: win_counts[t] / total for t in all_teams if win_counts.get(t, 0) > 0}
Probabilities(counts, all_teams) ==
    LET total == SumSet(DOMAIN counts, counts)
    IN  [t \in {u \in all_teams : u \in DOMAIN counts /\ counts[u] > 0} |->
            Ratio(counts[t], total)]

-----------------------------------------------------------------------------
(* Snapshots the analysis runs on                                          *)

MaxHead == 2
MaxTail == 7

Entry(name, t, seed, place) ==
    [name |-> name, team |-> t, effective_seed |-> seed, final_place |-> place]

Event(event_name, base, g, round, status, entries) ==
    [event_name |-> event_name, base_event_name |-> base, gender |-> g,
     round_type |-> round, status |-> status, entries |-> entries]

SeqsUpTo(S, n) == UNION {[1..k -> S] : k \in 0..n}

NoSeed == <<>>

Name60m == <<"6", "0", "m">>

\* the freely chosen entrants: A and B on 10.50, B on 10.5004 (within 0.001
\* of 10.50), A with a status code for a seed, and a placeholder slot of A
HeadPool ==
    { Entry("n", "A", <<"1", "0", ".", "5", "0">>, 0),
      Entry("n", "B", <<"1", "0", ".", "5", "0">>, 0),
      Entry("n", "B", <<"1", "0", ".", "5", "0", "0", "4">>, 0),
      Entry("n", "A", <<"D", "N", "S">>, 0),
      Entry("", "A", NoSeed, 0) }

\* the rest of the field: team C entrants with seeds 11.00, 11.10, ..., or
\* all on 11.00
FillerMark(k, tied) ==
    <<"1", "1", ".", IF tied THEN "0" ELSE Digits[((k - 1) % 10) + 1], "0">>

Fillers(n, tied) == [k \in 1..n |-> Entry("n", "C", FillerMark(k, tied), 0)]

UpcomingEntries ==
    {head \o Fillers(n, tied) : head \in SeqsUpTo(HeadPool, MaxHead), n \in 0..MaxTail,
                                tied \in BOOLEAN}

\* results already in: a completed final with at most one placed athlete
DoneEntries == SeqsUpTo({Entry("n", "A", NoSeed, 1)}, 1)

TypeOK ==
    pc \in {"start", "actual", "ceiling", "projection", "scenario", "ranked", "leverage", "wp_trial",
           "wp_place", "wp_done", "done"}

Init ==
    /\ \E done \in DoneEntries, up \in UpcomingEntries :
          state = [events |-> << Event("e1", Name60m, "M", "FINAL", "FINAL", done),
                                 Event("e2", Name60m, "M", "FINAL", "SCHEDULED", up) >>,
                   combined_events |-> <<>>]
    /\ gender = "M"
    /\ team = ""
    /\ pc = "start"
    /\ actual = <<>>
    /\ ceilings = <<>>
    /\ projections = <<>>
    /\ ranked = <<>>
    /\ scenarios = <<>>
    /\ win_probs = <<>>
    /\ win_counts = <<>>
    /\ trials = 0
    /\ sim = <<>>
    /\ twin = <<>>
    /\ leverage = <<>>
    /\ team_scores = <<>>

-----------------------------------------------------------------------------
(* run_all_analysis, layer by layer, and the scenario builder on demand    *)

ComputeActual ==
    /\ pc = "start"
    /\ actual' = compute_actual_scores(state, gender)
    /\ pc' = "actual"
    /\ UNCHANGED <<state, gender, team, ceilings, projections, ranked, scenarios, report, simulator>>

ComputeCeiling ==
    /\ pc = "actual"
    /\ ceilings' = compute_optimistic_ceiling(actual, state, gender)
    /\ pc' = "ceiling"
    /\ UNCHANGED <<state, gender, team, actual, projections, ranked, scenarios, report, simulator>>

ComputeProjection ==
    /\ pc = "ceiling"
    /\ projections' = compute_seed_projection(actual, state, gender)
    /\ pc' = "projection"
    /\ UNCHANGED <<state, gender, team, actual, ceilings, ranked, scenarios, report, simulator>>

ComputeScenarios ==
    /\ pc = "projection"
    /\ \E t \in {"A", "B", "C"} :
          /\ team' = t
          /\ scenarios' = compute_team_scenarios(t, actual, state, gender)
    /\ pc' = "scenario"
    /\ UNCHANGED <<state, gender, actual, ceilings, projections, ranked, report, simulator>>

Next == ComputeActual \/ ComputeCeiling \/ ComputeProjection \/ ComputeScenarios

Spec == Init /\ [][Next]_vars

-----------------------------------------------------------------------------
(* The Rank Resolver alone, on one event with marks of every format        *)

MaxRanked == 3

NameLongJump == <<"L", "o", "n", "g", " ", "J", "u", "m", "p">>

\* 5.85m, 16.45m, 13-04.50, 20-01.00, 1:45.23, DNS, abc and no seed
RankMarks ==
    { <<"5", ".", "8", "5", "m">>, <<"1", "6", ".", "4", "5", "m">>,
      <<"1", "3", "-", "0", "4", ".", "5", "0">>, <<"2", "0", "-", "0", "1", ".", "0", "0">>,
      <<"1", ":", "4", "5", ".", "2", "3">>, <<"D", "N", "S">>, <<"a", "b", "c">>, NoSeed }

RankPool == {Entry("n", "A", m, 0) : m \in RankMarks} \cup {Entry("", "A", NoSeed, 0)}

InitRank ==
    /\ \E base \in {Name60m, NameLongJump}, entries \in SeqsUpTo(RankPool, MaxRanked) :
          state = [events |-> << Event("e1", base, "M", "FINAL", "SCHEDULED", entries) >>,
                   combined_events |-> <<>>]
    /\ gender = "M"
    /\ team = ""
    /\ pc = "start"
    /\ actual = <<>>
    /\ ceilings = <<>>
    /\ projections = <<>>
    /\ ranked = <<>>
    /\ scenarios = <<>>
    /\ win_probs = <<>>
    /\ win_counts = <<>>
    /\ trials = 0
    /\ sim = <<>>
    /\ twin = <<>>
    /\ leverage = <<>>
    /\ team_scores = <<>>

RankEntries ==
    /\ pc = "start"
    /\ ranked' = _rank_entries_by_seed(state.events[1])
    /\ pc' = "ranked"
    /\ UNCHANGED <<state, gender, team, actual, ceilings, projections, scenarios, report, simulator>>

NextRank == RankEntries

SpecRank == InitRank /\ [][NextRank]_vars

-----------------------------------------------------------------------------
(* The Score Tabulator alone, on completed results of every kind           *)

MaxPlaced == 3
MaxCombined == 2

\* places 1, 2, 9 and absent
PlacedPool ==
    { Entry("n", "A", NoSeed, 1), Entry("n", "B", NoSeed, 2), Entry("n", "C", NoSeed, 9),
      Entry("n", "B", NoSeed, 0) }

EventKinds ==
    { <<"M", "FINAL", "FINAL">>, <<"W", "FINAL", "FINAL">>, <<"M", "PRELIM", "FINAL">>,
      <<"M", "FINAL", "IN_PROGRESS">> }

Athlete(t, place) == [team |-> t, final_place |-> place]

Combined(event_name, g, athletes) ==
    [event_name |-> event_name, gender |-> g, athletes |-> athletes]

CombinedChoices ==
    {<<>>} \cup
    { <<Combined("hep", g, athletes)>> :
        g \in {"M", "W"}, athletes \in SeqsUpTo({Athlete("A", 1), Athlete("C", 0)}, MaxCombined) }

InitTab ==
    /\ \E kind \in EventKinds, entries \in SeqsUpTo(PlacedPool, MaxPlaced),
          combined \in CombinedChoices :
          state = [events |-> << Event("e0", Name60m, "M", "FINAL", "FINAL",
                                       <<Entry("n", "B", NoSeed, 1)>>),
                                 Event("e1", Name60m, kind[1], kind[2], kind[3], entries) >>,
                   combined_events |-> combined]
    /\ gender \in {"M", "W"}
    /\ team = ""
    /\ pc = "start"
    /\ actual = <<>>
    /\ ceilings = <<>>
    /\ projections = <<>>
    /\ ranked = <<>>
    /\ scenarios = <<>>
    /\ win_probs = <<>>
    /\ win_counts = <<>>
    /\ trials = 0
    /\ sim = <<>>
    /\ twin = <<>>
    /\ leverage = <<>>
    /\ team_scores = <<>>

NextTab == ComputeActual

SpecTab == InitTab /\ [][NextTab]_vars

-----------------------------------------------------------------------------
(* compute_win_probability, step by step, on snapshots with finished and   *)
(* upcoming finals                                                         *)

MaxSim == 2
MaxIterations == 2

\* the entrants of the upcoming final: A on 10.50, B with a status code for
\* a seed, and a placeholder slot of A
WinPool ==
    { Entry("n", "A", <<"1", "0", ".", "5", "0">>, 0),
      Entry("n", "B", <<"D", "N", "S">>, 0),
      Entry("", "A", NoSeed, 0) }

\* the results already in: nobody, a sole leader, two leaders, a leader and
\* a follower, two leaders and a follower
WinDone ==
    { <<>>,
      <<Entry("n", "A", NoSeed, 1)>>,
      <<Entry("n", "A", NoSeed, 1), Entry("n", "B", NoSeed, 1)>>,
      <<Entry("n", "A", NoSeed, 2), Entry("n", "B", NoSeed, 1)>>,
      <<Entry("n", "A", NoSeed, 1), Entry("n", "B", NoSeed, 1), Entry("n", "C", NoSeed, 2)>> }

\* a second upcoming final, with one entrant, or none
WinMore ==
    { <<>>,
      <<Event("e3", <<"M", "i", "l", "e">>, "M", "FINAL", "SCHEDULED",
              <<Entry("n", "C", <<"4", ":", "1", "0", ".", "0", "0">>, 0)>>)>> }

InitWin ==
    /\ \E done \in WinDone, up \in SeqsUpTo(WinPool, MaxSim), g \in {"M", "W"}, more \in WinMore :
          /\ up = <<>> => more = <<>>
          /\ state = [events |-> << Event("e1", Name60m, "M", "FINAL", "FINAL", done),
                                    Event("e2", Name60m, g, "FINAL", "SCHEDULED", up) >>
                                 \o more,
                      combined_events |-> <<>>]
    /\ gender = "M"
    /\ team = ""
    /\ pc = "start"
    /\ actual = <<>>
    /\ ceilings = <<>>
    /\ projections = <<>>
    /\ ranked = <<>>
    /\ scenarios = <<>>
    /\ win_probs = <<>>
    /\ win_counts = <<>>
    /\ trials = 0
    /\ sim = <<>>
    /\ twin = <<>>
    /\ leverage = <<>>
    /\ team_scores = <<>>

\* a run of compute_win_probability: its position and its locals
Run ==
    [pc |-> pc, win_probs |-> win_probs, win_counts |-> win_counts, trials |-> trials,
     sim |-> sim]

\* the run goes on as r
Become(r) ==
    /\ pc' = r.pc
    /\ win_probs' = r.win_probs
    /\ win_counts' = r.win_counts
    /\ trials' = r.trials
    /\ sim' = r.sim

EventDataList(st, upcoming) == List([k \in DOMAIN upcoming |-> EventData(st, upcoming[k])])

\* all_teams of the snapshot
TeamsOf(act, st, g) == SimTeams(act, st, EventDataList(st, UpcomingWithEntries(st, g)))

\* lines 330-345: the set-up; order is the order the set all_teams iterates in
SetUp(r, act, st, event_data, n_iterations, order) ==
    [r EXCEPT !.sim = [n_iterations |-> n_iterations,
                       event_data |-> event_data,
                       all_teams |-> SimTeams(act, st, event_data),
                       order |-> order,
                       sim_scores |-> <<>>, ev |-> 0,
                       remaining_entries |-> <<>>, place |-> 0, placed |-> <<>>],
              !.win_counts = <<>>,
              !.pc = "wp_trial"]

\* lines 320-345: the early return, or the set-up of the simulation
Started(r, act, st, g, n_iterations, order) ==
    IF UpcomingWithEntries(st, g) = <<>>
    THEN [r EXCEPT !.win_probs = DegenerateDistribution(act), !.pc = "wp_done"]
    ELSE SetUp(r, act, st, EventDataList(st, UpcomingWithEntries(st, g)), n_iterations, order)

\* lines 347-356: a trial starts on the first event
CanBegin(r) == r.pc = "wp_trial" /\ r.trials < r.sim.n_iterations

\* a trial that goes on with the scores map of the trial before it
TrialBegun_CarriedOver(r, act) ==
    [r EXCEPT !.sim.sim_scores = IF @ = <<>>
                                 THEN [t \in r.sim.all_teams |-> ActualPoints(act, t)]
                                 ELSE @,
              !.sim.ev = 1,
              !.sim.remaining_entries = Zip(r.sim.event_data[1]),
              !.sim.place = 1,
              !.sim.placed = <<>>,
              !.pc = "wp_place"]

\* a trial whose first event starts at second place
TrialBegun_SecondPlace(r, act) ==
    [r EXCEPT !.sim.sim_scores = [t \in r.sim.all_teams |-> ActualPoints(act, t)],
              !.sim.ev = 1,
              !.sim.remaining_entries = Zip(r.sim.event_data[1]),
              !.sim.place = 2,
              !.sim.placed = <<>>,
              !.pc = "wp_place"]

TrialBegun(r, act) ==
    [r EXCEPT !.sim.sim_scores = [t \in r.sim.all_teams |-> ActualPoints(act, t)],
              !.sim.ev = 1,
              !.sim.remaining_entries = Zip(r.sim.event_data[1]),
              !.sim.place = 1,
              !.sim.placed = <<>>,
              !.pc = "wp_place"]

\* lines 357-376: one turn of the while loop; placed keeps the entries chosen
\* so far in the event
CanPlace(r) == r.pc = "wp_place" /\ Placing(r.sim)

Awarded(s, event, chosen_idx, pts) ==
    [s EXCEPT !.remaining_entries = Pop(@, chosen_idx),
              !.sim_scores = IF pts > 0
                             THEN DictAdd(@, event.entries[s.remaining_entries[chosen_idx][1]].team,
                                          pts)
                             ELSE @,
              !.placed = Append(@, s.remaining_entries[chosen_idx][1]),
              !.place = @ + 1]

Placed(r, st, draw) ==
    [r EXCEPT !.sim = Awarded(r.sim, st.events[r.sim.event_data[r.sim.ev].event],
                              ChosenIdx(r.sim.remaining_entries, draw,
                                        RemainingTotal(r.sim.remaining_entries), 0, 1),
                              PointsGet(r.sim.place))]

\* lines 351-356: the while loop is over and the trial goes on to the next event
CanNextEvent(r) ==
    r.pc = "wp_place" /\ ~Placing(r.sim) /\ r.sim.ev < Len(r.sim.event_data)

EventBegun(r) ==
    [r EXCEPT !.sim.ev = @ + 1,
              !.sim.remaining_entries = Zip(r.sim.event_data[r.sim.ev + 1]),
              !.sim.place = 1,
              !.sim.placed = <<>>]

\* lines 378-381: the last event is over and the leaders share the trial's credit
CanTally(r) ==
    r.pc = "wp_place" /\ ~Placing(r.sim) /\ r.sim.ev = Len(r.sim.event_data)

Tallied(r) ==
    [r EXCEPT !.win_counts = CreditLeaders(@, Leaders(r.sim.sim_scores, r.sim.order)),
              !.trials = @ + 1,
              !.pc = "wp_trial"]

\* lines 383-384
CanFinish(r) == r.pc = "wp_trial" /\ r.trials = r.sim.n_iterations

Finished(r) ==
    [r EXCEPT !.win_probs = Probabilities(r.win_counts, r.sim.all_teams), !.pc = "wp_done"]

\* compute_win_probability called when the layer named by after is done
StartAfter(after) ==
    /\ pc = after
    /\ \E n_iterations \in 0..MaxIterations, order \in Orders(TeamsOf(actual, state, gender)) :
          Become(Started(Run, actual, state, gender, n_iterations, order))
    /\ UNCHANGED <<analysis, twin>>

\* compute_win_probability on the actual scores alone
StartWinProbability == StartAfter("actual")

BeginTrial ==
    /\ CanBegin(Run)
    /\ Become(TrialBegun(Run, actual))
    /\ UNCHANGED <<analysis, twin>>

\* a placement loop that writes the simulated place into the snapshot's entry
PlaceNext_Recording ==
    /\ CanPlace(Run)
    /\ \E draw \in 0..(DrawSteps - 1) :
          /\ Become(Placed(Run, state, draw))
          /\ state' = [state EXCEPT
                         !.events[sim.event_data[sim.ev].event].entries[
                             sim.remaining_entries[
                                 ChosenIdx(sim.remaining_entries, draw,
                                           RemainingTotal(sim.remaining_entries), 0, 1)][1]
                         ].final_place = sim.place]
    /\ UNCHANGED <<gender, team, actual, ceilings, projections, ranked, scenarios, report, twin>>

\* one turn of the while loop on a draw of the given set
PlaceWith(draws) ==
    /\ CanPlace(Run)
    /\ \E draw \in draws : Become(Placed(Run, state, draw))
    /\ UNCHANGED <<analysis, twin>>

PlaceNext == PlaceWith(0..(DrawSteps - 1))

NextEvent ==
    /\ CanNextEvent(Run)
    /\ Become(EventBegun(Run))
    /\ UNCHANGED <<analysis, twin>>

Tally ==
    /\ CanTally(Run)
    /\ Become(Tallied(Run))
    /\ UNCHANGED <<analysis, twin>>

FinishWinProbability ==
    /\ CanFinish(Run)
    /\ Become(Finished(Run))
    /\ UNCHANGED <<analysis, twin>>

NextWin ==
    \/ ComputeActual
    \/ StartWinProbability
    \/ BeginTrial
    \/ PlaceNext
    \/ NextEvent
    \/ Tally
    \/ FinishWinProbability

SpecWin == InitWin /\ [][NextWin]_vars

-----------------------------------------------------------------------------
(* Two runs of compute_win_probability on one snapshot and one iteration   *)
(* count, fed the same sequence of draws; the sets of the two runs may     *)
(* iterate in different orders                                             *)

SeedStart ==
    /\ pc = "actual"
    /\ \E n_iterations \in 0..MaxIterations,
          order \in Orders(TeamsOf(actual, state, gender)),
          other \in Orders(TeamsOf(actual, state, gender)) :
          /\ Become(Started(Run, actual, state, gender, n_iterations, order))
          /\ twin' = Started(Run, actual, state, gender, n_iterations, other)
    /\ UNCHANGED analysis

SeedBeginTrial ==
    /\ CanBegin(Run) /\ CanBegin(twin)
    /\ Become(TrialBegun(Run, actual))
    /\ twin' = TrialBegun(twin, actual)
    /\ UNCHANGED analysis

SeedPlaceNext ==
    /\ CanPlace(Run) /\ CanPlace(twin)
    /\ \E draw \in 0..(DrawSteps - 1) :
          /\ Become(Placed(Run, state, draw))
          /\ twin' = Placed(twin, state, draw)
    /\ UNCHANGED analysis

SeedNextEvent ==
    /\ CanNextEvent(Run) /\ CanNextEvent(twin)
    /\ Become(EventBegun(Run))
    /\ twin' = EventBegun(twin)
    /\ UNCHANGED analysis

SeedTally ==
    /\ CanTally(Run) /\ CanTally(twin)
    /\ Become(Tallied(Run))
    /\ twin' = Tallied(twin)
    /\ UNCHANGED analysis

SeedFinish ==
    /\ CanFinish(Run) /\ CanFinish(twin)
    /\ Become(Finished(Run))
    /\ twin' = Finished(twin)
    /\ UNCHANGED analysis

NextSeed ==
    \/ ComputeActual
    \/ SeedStart
    \/ SeedBeginTrial
    \/ SeedPlaceNext
    \/ SeedNextEvent
    \/ SeedTally
    \/ SeedFinish

SpecSeed == InitWin /\ [][NextSeed]_vars

-----------------------------------------------------------------------------
(* compute_leverage_index on snapshots with six scoring teams and three    *)
(* upcoming finals                                                         *)

MaxSwingHead == 2

\* compute_leverage_index called when the layer named by after is done
LeverageAfter(after) ==
    /\ pc = after
    /\ leverage' = compute_leverage_index(state, gender, actual)
    /\ pc' = "leverage"
    /\ UNCHANGED <<state, gender, team, actual, ceilings, projections, ranked, scenarios,
                   team_scores, simulator>>

\* run_all_analysis, line 476
ComputeLeverage == LeverageAfter("projection")

\* compute_leverage_index on the actual scores alone
LeverageIndex == LeverageAfter("actual")

\* the results already in: nobody, one team, six teams in two orders, six
\* teams level, five teams level behind a leader
SwingDone ==
    LET row(teams, places) == [k \in DOMAIN teams |-> Entry("n", teams[k], NoSeed, places[k])]
    IN  { <<>>,
          row(<<"A">>, <<1>>),
          row(<<"A", "B", "C", "D", "E", "F">>, <<1, 2, 3, 4, 5, 6>>),
          row(<<"A", "B", "C", "D", "E", "F">>, <<6, 5, 4, 3, 2, 1>>),
          row(<<"A", "B", "C", "D", "E", "F">>, <<1, 1, 1, 1, 1, 1>>),
          row(<<"F", "E", "D", "C", "B", "A">>, <<1, 2, 2, 2, 2, 2>>) }

\* entrants of the top team, the sixth team, a team without points, and a
\* placeholder slot of B
SwingPool ==
    { Entry("n", "A", NoSeed, 0), Entry("n", "F", NoSeed, 0), Entry("n", "G", NoSeed, 0),
      Entry("", "B", NoSeed, 0) }

SwingSecond ==
    { <<>>, <<Entry("n", "A", NoSeed, 0)>>,
      <<Entry("n", "A", NoSeed, 0), Entry("n", "F", NoSeed, 0)>> }

InitSwing ==
    /\ \E done \in SwingDone, head \in SeqsUpTo(SwingPool, MaxSwingHead), n \in 0..MaxTail,
          second \in SwingSecond :
          state = [events |-> << Event("e1", Name60m, "M", "FINAL", "FINAL", done),
                                 Event("e2", Name60m, "M", "FINAL", "SCHEDULED",
                                       head \o Fillers(n, FALSE)),
                                 Event("e3", Name60m, "M", "FINAL", "SCHEDULED", second),
                                 Event("e4", Name60m, "M", "FINAL", "SCHEDULED",
                                       <<Entry("n", "A", NoSeed, 0), Entry("n", "C", NoSeed, 0)>>) >>,
                   combined_events |-> <<>>]
    /\ gender = "M"
    /\ team = ""
    /\ pc = "start"
    /\ actual = <<>>
    /\ ceilings = <<>>
    /\ projections = <<>>
    /\ ranked = <<>>
    /\ scenarios = <<>>
    /\ win_probs = <<>>
    /\ win_counts = <<>>
    /\ trials = 0
    /\ sim = <<>>
    /\ twin = <<>>
    /\ leverage = <<>>
    /\ team_scores = <<>>

NextSwing == ComputeActual \/ LeverageIndex

SpecSwing == InitSwing /\ [][NextSwing]_vars

-----------------------------------------------------------------------------
(* run_all_analysis: every layer in turn, then the records of the teams    *)

MaxAll == 2

\* int(x) for a projection x >= 0 in units of 1 / PointsUnit
IntOf(x) == x \div PointsUnit

\* round(p * 100, 1) in tenths of a percent, halves to even
RoundPercent(p) ==
    LET q == (p.num * 1000) \div p.den
        r == (p.num * 1000) % p.den
    IN  IF 2 * r > p.den \/ (2 * r = p.den /\ q % 2 = 1) THEN q + 1 ELSE q

\* d.get(k, default) on a dict kept as a function
Get(d, k, default) == IF k \in DOMAIN d THEN d[k] ELSE default

\* lines 484-488: the record of one team
Scored(t, act, ceil, proj, probs) ==
    [team |-> t,
     actual_points |-> ActualPoints(act, t),
     events_scored |-> IF HasTeam(act, t)
                       THEN act[CHOOSE i \in DOMAIN act : act[i].team = t].events_scored
                       ELSE <<>>,
     optimistic_ceiling |-> Get(ceil, t, ActualPoints(act, t)),
     seed_projection |-> IF t \in DOMAIN proj THEN IntOf(proj[t]) ELSE ActualPoints(act, t),
     win_probability |-> IF t \in DOMAIN probs THEN RoundPercent(probs[t]) ELSE 0]

\* lines 480-489: the records in sorted(all_teams) order
Records(teams, act, ceil, proj, probs) ==
    List([k \in DOMAIN teams |-> Scored(teams[k], act, ceil, proj, probs)])

BySeedProjection(records) ==
    List([k \in DOMAIN records |-> <<records[k].seed_projection, records[k]>>])

\* lines 479-491
TeamScores(act, ceil, proj, probs) ==
    Items(SortedDescending(BySeedProjection(
        Records(SortedTeams(ActualTeams(act) \cup DOMAIN ceil \cup DOMAIN proj),
                act, ceil, proj, probs))))

\* run_all_analysis, line 477
AnalysisWinProbability == StartAfter("leverage")

\* lines 479-499: the records are those of actual where a team has one, so the
\* fields set here show in actual too; the result carries leverage[:8]
Assemble ==
    /\ pc = "wp_done"
    /\ team_scores' = TeamScores(actual, ceilings, projections, win_probs)
    /\ actual' = [i \in DOMAIN actual |->
                     Scored(actual[i].team, actual, ceilings, projections, win_probs)]
    /\ leverage' = Slice(leverage, 1, Min(8, Len(leverage)))
    /\ pc' = "done"
    /\ UNCHANGED <<state, gender, team, ceilings, projections, ranked, scenarios, simulator>>

\* the entrants of the upcoming final
AllPool ==
    { Entry("n", "A", <<"1", "0", ".", "5", "0">>, 0),
      Entry("n", "B", <<"1", "0", ".", "5", "0">>, 0) }

\* a final whose third and fourth seeds are level
LevelThirds ==
    << Entry("n", "C", <<"1", "0", ".", "4", "0">>, 0),
       Entry("n", "C", <<"1", "0", ".", "4", "5">>, 0),
       Entry("n", "B", <<"1", "0", ".", "5", "0">>, 0),
       Entry("n", "D", <<"1", "0", ".", "5", "0">>, 0) >>

AllDone ==
    { <<>>, <<Entry("n", "A", NoSeed, 4)>>,
      <<Entry("n", "A", NoSeed, 1), Entry("n", "B", NoSeed, 2)>> }

InitAll ==
    /\ \E done \in AllDone, up \in SeqsUpTo(AllPool, MaxAll) \cup {LevelThirds}, more \in WinMore :
          /\ Len(up) # 1 => more = <<>>
          /\ state = [events |-> << Event("e1", Name60m, "M", "FINAL", "FINAL", done),
                                    Event("e2", Name60m, "M", "FINAL", "SCHEDULED", up) >>
                                 \o more,
                      combined_events |-> <<>>]
    /\ gender = "M"
    /\ team = ""
    /\ pc = "start"
    /\ actual = <<>>
    /\ ceilings = <<>>
    /\ projections = <<>>
    /\ ranked = <<>>
    /\ scenarios = <<>>
    /\ win_probs = <<>>
    /\ win_counts = <<>>
    /\ trials = 0
    /\ sim = <<>>
    /\ twin = <<>>
    /\ leverage = <<>>
    /\ team_scores = <<>>

NextAll ==
    \/ ComputeActual
    \/ ComputeCeiling
    \/ ComputeProjection
    \/ ComputeLeverage
    \/ AnalysisWinProbability
    \/ BeginTrial
    \/ PlaceNext
    \/ NextEvent
    \/ Tally
    \/ FinishWinProbability
    \/ Assemble

SpecAll == InitAll /\ [][NextAll]_vars

-----------------------------------------------------------------------------
(* The operations called again and again on one snapshot                   *)

\* the positions a caller holds between calls, in the order run_all_analysis
\* passes them
Layers == <<"start", "actual", "ceiling", "projection">>

\* the caller goes back to an earlier layer and calls on from there, with the
\* results of the earlier calls still at hand
CallAgain ==
    /\ \E k \in DOMAIN Layers :
          /\ \/ pc \in {"scenario", "done"}
             \/ \E j \in DOMAIN Layers : j > k /\ pc = Layers[j]
          /\ pc' = Layers[k]
    /\ UNCHANGED <<analysis, simulator>>

NextAny ==
    \/ NextAll
    \/ ComputeScenarios
    \/ CallAgain

\* one completed final with a scorer and an upcoming final of at most two entrants
InitAny ==
    /\ InitAll
    /\ Len(state.events[1].entries) = 1
    /\ Len(state.events[2].entries) <= 2

SpecAny == InitAny /\ [][NextAny]_vars

-----------------------------------------------------------------------------
(* One trial on one final of up to nine named entrants                     *)

\* the entrants ahead of the fillers: a placeholder slot alone, or A with B
\* whose seed is a status code
LoopHeads ==
    { <<Entry("", "A", NoSeed, 0)>>,
      <<Entry("n", "A", <<"1", "0", ".", "5", "0">>, 0), Entry("n", "B", <<"D", "N", "S">>, 0)>> }

InitLoop ==
    /\ \E head \in LoopHeads, n \in 0..MaxTail :
          state = [events |-> << Event("e1", Name60m, "M", "FINAL", "FINAL",
                                       <<Entry("n", "A", NoSeed, 1)>>),
                                 Event("e2", Name60m, "M", "FINAL", "SCHEDULED",
                                       head \o Fillers(n, FALSE)) >>,
                   combined_events |-> <<>>]
    /\ gender = "M"
    /\ team = ""
    /\ pc = "start"
    /\ actual = <<>>
    /\ ceilings = <<>>
    /\ projections = <<>>
    /\ ranked = <<>>
    /\ scenarios = <<>>
    /\ win_probs = <<>>
    /\ win_counts = <<>>
    /\ trials = 0
    /\ sim = <<>>
    /\ twin = <<>>
    /\ leverage = <<>>
    /\ team_scores = <<>>

\* compute_win_probability(actual, state, gender, n_iterations=1)
StartOneTrial ==
    /\ pc = "actual"
    /\ Become(Started(Run, actual, state, gender, 1,
                      SortedTeams(TeamsOf(actual, state, gender))))
    /\ UNCHANGED <<analysis, twin>>

\* random.random() at its least, in the middle and at its greatest
CoarseDraws == {0, DrawSteps \div 2, DrawSteps - 1}

PlaceCoarse == PlaceWith(CoarseDraws)

NextLoop ==
    \/ ComputeActual
    \/ StartOneTrial
    \/ BeginTrial
    \/ PlaceCoarse
    \/ Tally
    \/ FinishWinProbability

SpecLoop == InitLoop /\ [][NextLoop]_vars

-----------------------------------------------------------------------------
(* Every trial of a run beside a trial run alone on the same draws         *)

\* the run as set up, before any trial
Alone(r) ==
    [SetUp(r, actual, state, r.sim.event_data, r.sim.n_iterations, r.sim.order)
        EXCEPT !.trials = 0]

AloneStart ==
    /\ pc = "actual"
    /\ \E n_iterations \in 0..MaxIterations, order \in Orders(TeamsOf(actual, state, gender)) :
          /\ Become(Started(Run, actual, state, gender, n_iterations, order))
          /\ twin' = Started(Run, actual, state, gender, n_iterations, order)
    /\ UNCHANGED analysis

AloneBeginTrial ==
    /\ CanBegin(Run)
    /\ Become(TrialBegun(Run, actual))
    /\ twin' = TrialBegun(Alone(Run), actual)
    /\ UNCHANGED analysis

AlonePlaceNext ==
    /\ CanPlace(Run)
    /\ \E draw \in 0..(DrawSteps - 1) :
          /\ Become(Placed(Run, state, draw))
          /\ twin' = Placed(twin, state, draw)
    /\ UNCHANGED analysis

AloneNextEvent ==
    /\ CanNextEvent(Run)
    /\ Become(EventBegun(Run))
    /\ twin' = EventBegun(twin)
    /\ UNCHANGED analysis

AloneTally ==
    /\ CanTally(Run)
    /\ Become(Tallied(Run))
    /\ twin' = Tallied(twin)
    /\ UNCHANGED analysis

AloneFinish ==
    /\ CanFinish(Run)
    /\ Become(Finished(Run))
    /\ UNCHANGED <<analysis, twin>>

NextAlone ==
    \/ ComputeActual
    \/ AloneStart
    \/ AloneBeginTrial
    \/ AlonePlaceNext
    \/ AloneNextEvent
    \/ AloneTally
    \/ AloneFinish

SpecAlone == InitWin /\ [][NextAlone]_vars

-----------------------------------------------------------------------------
(* Notions the properties are stated in                                    *)

AllTeams == Range(TEAM_ORDER)

MaxOf(S) == CHOOSE v \in S : \A w \in S : v >= w

Upcoming == get_upcoming_finals(state, gender)

UpcomingSet == Range(Upcoming)

\* what run_all_analysis reports for a team absent from a layer
CeilingOf(t) == IF t \in DOMAIN ceilings THEN ceilings[t] ELSE ActualPoints(actual, t)

ProjectionOf(t) ==
    IF t \in DOMAIN projections THEN projections[t] ELSE ActualPoints(actual, t) * PointsUnit

\* the named entrants of team t in an event, as indices
NamedOf(event, t) ==
    {i \in DOMAIN event.entries : event.entries[i].name # "" /\ event.entries[i].team = t}

\* The most team t can earn in one final, over every finishing order of the
\* named entrants: places 1..min(8, n) all go to distinct entrants, so t can
\* hold any set P of them with |P| <= (entrants of t) and the other
\* min(8, n) - |P| places within reach of the other entrants.
BestOutcomePoints(event, t) ==
    LET n  == Len(NamedEntries(event))
        nt == Cardinality(NamedOf(event, t))
        k  == Min(8, n)
        sets == {P \in SUBSET (1..k) : Cardinality(P) <= nt /\ k - Cardinality(P) <= n - nt}
    IN  MaxOf({SumSet(P, [p \in 1..8 |-> PLACE_POINTS[p]]) : P \in sets})

AfterCeiling == pc \in {"ceiling", "projection", "scenario"}

AfterProjection == pc \in {"projection", "scenario"}

\* C1: for every team, ceiling >= seed projection >= actual points.
C1_CeilingAboveProjectionAboveActual ==
    AfterProjection =>
        \A t \in AllTeams :
            /\ CeilingOf(t) * PointsUnit >= ProjectionOf(t)
            /\ ProjectionOf(t) >= ActualPoints(actual, t) * PointsUnit

\* C2: for every team and every finishing order of the named entrants of the
\* upcoming finals, actual points plus the points earned is at most the ceiling.
C2_CeilingBoundsEveryOutcome ==
    AfterCeiling =>
        \A t \in DOMAIN ceilings :
            ActualPoints(actual, t)
              + SumSet(UpcomingSet, [e \in UpcomingSet |-> BestOutcomePoints(state.events[e], t)])
                <= ceilings[t]

\* the tied blocks the while loop of compute_seed_projection walks, each as
\* [place, count]: the block starts at that place and has that many members
RECURSIVE TiedBlocks(_, _, _, _)
TiedBlocks(rk, keys, i, place) ==
    IF ~(i <= Len(rk) /\ place <= 8) THEN <<>>
    ELSE LET j == TieEnd(rk, keys, keys[rk[i]], i + 1)
         IN  <<[place |-> place, count |-> j - i]>> \o TiedBlocks(rk, keys, j, place + (j - i))

EventBlocks(event) == TiedBlocks(_rank_entries_by_seed(event), SeedKeys(event), 1, 1)

\* what compute_seed_projection gives each member of a block
MemberAward(b) == AvgPts(RangeList(b.place, Min(b.place + b.count, 9)))

\* the table values of the places p..p+k-1 a block spans
SpannedPoints(b) == SumSeq([q \in 1..b.count |-> PointsGet(b.place + q - 1)])

\* the points compute_seed_projection adds over all teams
ProjectedGain ==
    SumSet(DOMAIN projections,
           [t \in DOMAIN projections |-> projections[t] - ActualPoints(actual, t) * PointsUnit])

\* C4: every member of a tied block spanning places [p, p+k-1] receives the
\* average of the table values for p..p+k-1, so a block's total (also of a
\* block reaching past place 8) never exceeds the table values it spans.
C4_TiedBlockAverage ==
    AfterProjection =>
        /\ \A e \in UpcomingSet :
              LET blocks == EventBlocks(state.events[e])
              IN  \A x \in DOMAIN blocks :
                     /\ MemberAward(blocks[x]) * blocks[x].count
                            = SpannedPoints(blocks[x]) * PointsUnit
                     /\ MemberAward(blocks[x]) * blocks[x].count
                            <= SpannedPoints(blocks[x]) * PointsUnit
        /\ ProjectedGain
              <= PointsUnit * SumSet(UpcomingSet,
                     [e \in UpcomingSet |->
                        SumSeq([q \in 1..Len(NamedEntries(state.events[e])) |-> PointsGet(q)])])

\* no two named entrants of an upcoming final have seed keys within 0.001
NoNearTies ==
    \A e \in UpcomingSet :
        LET event == state.events[e]
            keys == SeedKeys(event)
        IN  \A i, j \in DOMAIN event.entries :
               (i # j /\ event.entries[i].name # "" /\ event.entries[j].name # "")
                   => ~Within001(keys[i], keys[j])

\* the teams of the entrants the Rank Resolver puts in places 1..8, by place
SeedPlaceTeams(event) ==
    LET rk == _rank_entries_by_seed(event)
    IN  List([r \in 1..Min(8, Len(rk)) |-> event.entries[rk[r]].team])

\* C5: with no two seed keys within 0.001, each team's projection is its
\* actual points plus the table points for place r of each of its named
\* entrants ranked r <= 8; a team with neither is not in the projection.
C5_ProjectionWithoutTies ==
    (AfterProjection /\ NoNearTies) =>
        LET Mine(e, t) ==
                LET placed == SeedPlaceTeams(state.events[e])
                IN  {r \in DOMAIN placed : placed[r] = t}
        IN  \A t \in AllTeams :
               /\ t \in DOMAIN projections
                     <=> (HasTeam(actual, t) \/ \E e \in UpcomingSet : Mine(e, t) # {})
               /\ t \in DOMAIN projections =>
                     projections[t] =
                         PointsUnit * (ActualPoints(actual, t)
                             + SumSet(UpcomingSet,
                                   [e \in UpcomingSet |->
                                      SumSet(Mine(e, t), [r \in 1..8 |-> PLACE_POINTS[r]])]))

\* team A's entrants seeded first and third of three, team C's second: A
\* gains 10 + 6, C gains 8
C5_Witness ==
    /\ pc = "projection"
    /\ NoNearTies
    /\ Len(state.events[2].entries) = 3
    /\ DOMAIN projections = {"A", "C"}
    /\ projections["A"] = PointsUnit * (ActualPoints(actual, "A") + 16)
    /\ projections["C"] = PointsUnit * 8

\* C9: the worst-case total equals the team's actual points, and in every
\* breakdown row best-case >= seeds-hold >= worst-case.
C9_ScenarioOrder ==
    pc = "scenario" =>
        /\ scenarios.scenario_c = ActualPoints(actual, team)
        /\ scenarios.team = team
        /\ \A k \in DOMAIN scenarios.breakdown :
              /\ scenarios.breakdown[k].scenario_b_pts >= scenarios.breakdown[k].scenario_a_pts
              /\ scenarios.breakdown[k].scenario_a_pts >= scenarios.breakdown[k].scenario_c_pts

\* a team with points already, and a row where the three scenarios differ
C9_Witness ==
    /\ pc = "scenario"
    /\ ActualPoints(actual, team) > 0
    /\ \E k \in DOMAIN scenarios.breakdown :
          /\ scenarios.breakdown[k].scenario_b_pts > scenarios.breakdown[k].scenario_a_pts
          /\ scenarios.breakdown[k].scenario_a_pts > scenarios.breakdown[k].scenario_c_pts

\* the table points of team t's athletes placed 1..8 in a list of athletes
PlacePointsOf(athletes, t) ==
    LET mine == {i \in DOMAIN athletes :
                    athletes[i].team = t /\ athletes[i].final_place \in 1..8}
    IN  SumSet(mine, [i \in DOMAIN athletes |-> PointsGet(athletes[i].final_place)])

CompletedSet == {e \in DOMAIN state.events : IsCompletedFinal(state.events[e], gender)}

CompleteCombinedSet ==
    {k \in DOMAIN state.combined_events :
        state.combined_events[k].gender = gender /\ is_complete(state.combined_events[k])}

EarnedPoints(t) ==
    SumSet(CompletedSet, [e \in CompletedSet |-> PlacePointsOf(state.events[e].entries, t)])
      + SumSet(CompleteCombinedSet,
               [k \in CompleteCombinedSet |-> PlacePointsOf(state.combined_events[k].athletes, t)])

HasScoringPlace(t) ==
    \/ \E e \in CompletedSet : \E i \in DOMAIN state.events[e].entries :
          state.events[e].entries[i].team = t /\ state.events[e].entries[i].final_place \in 1..8
    \/ \E k \in CompleteCombinedSet : \E i \in DOMAIN state.combined_events[k].athletes :
          /\ state.combined_events[k].athletes[i].team = t
          /\ state.combined_events[k].athletes[i].final_place \in 1..8

\* C3: each team's actual points are the table points of its athletes' places
\* in the completed finals and complete combined events of the gender; a place
\* absent or outside 1..8 adds nothing and never gets its team a record.
C3_ActualScores ==
    pc = "actual" =>
        /\ \A t \in AllTeams :
              /\ ActualPoints(actual, t) = EarnedPoints(t)
              /\ HasTeam(actual, t) <=> HasScoringPlace(t)
        /\ \A i, j \in DOMAIN actual : actual[i].team = actual[j].team => i = j

\* a completed final placed 1: A, 2: B, 9: C, with no record for C
C3_Witness ==
    /\ pc = "actual"
    /\ IsCompletedFinal(state.events[2], gender)
    /\ state.events[2].entries
          = <<Entry("n", "A", NoSeed, 1), Entry("n", "B", NoSeed, 2), Entry("n", "C", NoSeed, 9)>>
    /\ CompleteCombinedSet # {}
    /\ ActualPoints(actual, "A") = 20
    /\ ActualPoints(actual, "B") = 18
    /\ ~HasTeam(actual, "C")

Parseable(entry) == _mark_to_seconds(entry.effective_seed).ok

\* the size of a mark, whatever sign the parser gave it
Magnitude(entry) ==
    LET v == _mark_to_seconds(entry.effective_seed)
    IN  IF Less(v, Num(0, 0)) THEN Neg(v) ELSE v

FeetInchesMark(entry) == IsFeetInches(CleanMark(Upper(_normalize_mark(entry.effective_seed))))

RankedEvent == state.events[1]

\* C6: in a distance/height event the larger parsed mark ranks ahead of the
\* smaller one, for metric marks and for feet-inches marks.
C6_FieldBestFirst ==
    (pc = "ranked" /\ IsFieldEvent(RankedEvent)) =>
        \A a, b \in DOMAIN ranked :
            LET x == RankedEvent.entries[ranked[a]]
                y == RankedEvent.entries[ranked[b]]
            IN  (/\ a < b
                 /\ Parseable(x) /\ Parseable(y)
                 /\ FeetInchesMark(x) = FeetInchesMark(y))
                    => ~Less(Magnitude(x), Magnitude(y))

\* among the metric marks of a field event the larger mark does rank ahead
C6_MetricBestFirst ==
    (pc = "ranked" /\ IsFieldEvent(RankedEvent)) =>
        \A a, b \in DOMAIN ranked :
            LET x == RankedEvent.entries[ranked[a]]
                y == RankedEvent.entries[ranked[b]]
            IN  (/\ a < b
                 /\ Parseable(x) /\ Parseable(y)
                 /\ ~FeetInchesMark(x) /\ ~FeetInchesMark(y))
                    => ~Less(Magnitude(x), Magnitude(y))

NamedSet(event) == {i \in DOMAIN event.entries : event.entries[i].name # ""}

\* C7: the ranking holds each named entry exactly once and nothing else, and
\* entries with equal sort keys keep their original relative order.
C7_RankPermutationStable ==
    pc = "ranked" =>
        LET keys == SeedKeys(RankedEvent)
        IN  /\ Len(ranked) = Cardinality(NamedSet(RankedEvent))
            /\ Range(ranked) = NamedSet(RankedEvent)
            /\ \A a, b \in DOMAIN ranked :
                  (a < b /\ keys[ranked[a]] = keys[ranked[b]]) => ranked[a] < ranked[b]

\* a placeholder slot dropped, and two entrants on one key after a slower one
C7_Witness ==
    /\ pc = "ranked"
    /\ Len(RankedEvent.entries) = 3
    /\ Len(ranked) = 2
    /\ ranked = <<1, 3>>
    /\ Parseable(RankedEvent.entries[1])
    /\ SeedKeys(RankedEvent)[1] = SeedKeys(RankedEvent)[3]

\* C8: an entrant with a missing, status-code or malformed seed ranks after
\* every entrant with a parseable mark, and such entrants keep their original
\* relative order.
C8_UnparseableLast ==
    pc = "ranked" =>
        \A a, b \in DOMAIN ranked :
            LET x == RankedEvent.entries[ranked[a]]
                y == RankedEvent.entries[ranked[b]]
            IN  a < b =>
                  /\ ~(~Parseable(x) /\ Parseable(y))
                  /\ (~Parseable(x) /\ ~Parseable(y)) => ranked[a] < ranked[b]

\* a status code and a malformed seed listed around a parseable mark
C8_Witness ==
    /\ pc = "ranked"
    /\ ranked = <<2, 1, 3>>
    /\ RankedEvent.entries[1].effective_seed = <<"D", "N", "S">>
    /\ Parseable(RankedEvent.entries[2])
    /\ RankedEvent.entries[3].effective_seed = <<"a", "b", "c">>

-----------------------------------------------------------------------------
(* C10: nothing left to simulate                                           *)

NothingUpcoming ==
    \A i \in DOMAIN state.events :
        ~(IsUpcomingFinal(state.events[i], gender) /\ state.events[i].entries # <<>>)

\* the teams sharing the maximum actual score
MaxSharers ==
    {t \in ActualTeams(actual) :
        \A u \in ActualTeams(actual) : ActualPoints(actual, t) >= ActualPoints(actual, u)}

\* C10: when no upcoming final of the gender has entrants, compute_win_probability
\* runs no trials, and its result gives 1/k to each of the k teams sharing the
\* maximum actual score, 0 to every other team of the actual scores, and is the
\* empty map when there are no teams.
C10_DegenerateDistribution ==
    NothingUpcoming =>
        /\ trials = 0
        /\ pc \notin {"wp_trial", "wp_place"}
        /\ pc = "wp_done" =>
              /\ DOMAIN win_probs = ActualTeams(actual)
              /\ ActualTeams(actual) = {} => win_probs = <<>>
              /\ \A t \in ActualTeams(actual) :
                    IF t \in MaxSharers
                    THEN win_probs[t].num * Cardinality(MaxSharers) = win_probs[t].den
                    ELSE win_probs[t].num = 0

\* two teams share the lead and a third trails: 1/2, 1/2 and 0
C10_Witness ==
    /\ NothingUpcoming
    /\ pc = "wp_done"
    /\ Cardinality(MaxSharers) = 2
    /\ ActualTeams(actual) \ MaxSharers # {}
    /\ \A t \in MaxSharers : win_probs[t] = [num |-> 1, den |-> 2]

-----------------------------------------------------------------------------
(* C11: the credit of the trials                                           *)

\* the simulation was set up: the early return was not taken
Simulating == sim # <<>>

TotalCredit == SumSet(DOMAIN win_counts, win_counts)

\* the teams at the maximum of the trial's scores
TrialLeaders ==
    {t \in DOMAIN sim.sim_scores :
        \A u \in DOMAIN sim.sim_scores : sim.sim_scores[u] <= sim.sim_scores[t]}

CreditOf(counts, t) == IF t \in DOMAIN counts THEN counts[t] ELSE 0

\* a trial ends: its leaders share one credit equally and nobody else gets any
TrialSplitsOneCredit ==
    (pc = "wp_place" /\ pc' = "wp_trial") =>
        /\ TotalCredit' = TotalCredit + CreditUnit
        /\ \A t \in DOMAIN win_counts' :
              CreditOf(win_counts', t) - CreditOf(win_counts, t) =
                  IF t \in TrialLeaders THEN CreditUnit \div Cardinality(TrialLeaders) ELSE 0
        /\ CreditUnit % Cardinality(TrialLeaders) = 0

\* the result after N >= 1 trials: the total credit is N, the probabilities
\* sum to 1, and the teams of the result are those with positive credit
ResultOfTrials ==
    /\ TotalCredit = trials * CreditUnit
    /\ (pc = "wp_done" /\ trials >= 1) =>
          /\ DOMAIN win_probs = {t \in DOMAIN win_counts : win_counts[t] > 0}
          /\ \A t \in DOMAIN win_probs :
                win_probs[t].num > 0 /\ TotalCredit % win_probs[t].den = 0
          /\ SumSet(DOMAIN win_probs,
                    [t \in DOMAIN win_probs |->
                        win_probs[t].num * (TotalCredit \div win_probs[t].den)])
                = TotalCredit

\* C11 as stated, for every simulation: after any number of trials the total
\* credit is the number of trials, and after N >= 1 trials the probabilities
\* sum to 1 over exactly the teams with positive credit.
C11_EveryTrialOneCredit == Simulating => ResultOfTrials

\* C11 where the simulation has a team: each trial distributes a credit of
\* exactly 1, split equally among the teams tied at the trial's maximum score;
\* after N >= 1 trials the total credit is N, the returned probabilities sum to
\* 1, and exactly the teams with positive credit are in the result.
C11_OneCreditPerTrial ==
    /\ [](Simulating /\ sim.all_teams # {} => ResultOfTrials)
    /\ [][(Simulating /\ sim.all_teams # {}) => TrialSplitsOneCredit]_vars

\* two trials are done, one of them split between two leaders, and the result
\* has more than one team
C11_Witness ==
    /\ Simulating
    /\ pc = "wp_done"
    /\ trials = 2
    /\ Cardinality(DOMAIN win_probs) >= 2
    /\ \E t \in DOMAIN win_counts : win_counts[t] % CreditUnit # 0

-----------------------------------------------------------------------------
(* C12: the result is a function of the snapshot, the iteration count and  *)
(* the draws                                                               *)

-----------------------------------------------------------------------------
(* C13: the leverage index                                                 *)

\* the upcoming finals with an entrant, in snapshot order
EnteredFinals ==
    {e \in DOMAIN state.events :
        IsUpcomingFinal(state.events[e], gender) /\ state.events[e].entries # <<>>}

\* the sets that are a top five of the teams by actual points
TopFives ==
    {T \in SUBSET ActualTeams(actual) :
        /\ Cardinality(T) = Min(5, Cardinality(ActualTeams(actual)))
        /\ \A t \in T, u \in ActualTeams(actual) \ T :
              ActualPoints(actual, t) >= ActualPoints(actual, u)}

-----------------------------------------------------------------------------
(* C14: the records run_all_analysis returns                               *)

\* the seed projection of a team, in units of 1 / PointsUnit
Projected(t) ==
    IF t \in DOMAIN projections THEN projections[t] ELSE ActualPoints(actual, t) * PointsUnit

\* C14: run_all_analysis returns one record for every team of the actual,
\* ceiling or projection layers, and in team_scores a team with a higher
\* fractional seed projection never comes after a team with a lower one.
C14_RecordsByProjection ==
    pc = "done" =>
        /\ {team_scores[k].team : k \in DOMAIN team_scores}
              = ActualTeams(actual) \cup DOMAIN ceilings \cup DOMAIN projections
        /\ \A i, j \in DOMAIN team_scores : i # j => team_scores[i].team # team_scores[j].team
        /\ \A i, j \in DOMAIN team_scores :
              i < j => Projected(team_scores[i].team) >= Projected(team_scores[j].team)

-----------------------------------------------------------------------------
(* C15: the snapshot is only read                                          *)

\* C15: no step of any analysis operation, in any sequence of calls on one
\* snapshot, changes the snapshot.
C15_SnapshotUnchanged == [][state' = state]_vars

\* run_all_analysis has returned after real trials, on a snapshot with an
\* upcoming final, and the scenario builder has been called before it
C15_Witness ==
    /\ pc = "done"
    /\ trials > 0
    /\ team_scores # <<>>
    /\ scenarios # <<>>
    /\ UpcomingWithEntries(state, gender) # <<>>

-----------------------------------------------------------------------------
(* C16: events with no or one named entrant                                *)

\* the event being simulated
CurrentEvent == sim.event_data[sim.ev]

\* every division has a divisor above zero and every pop an index in range
NoFault ==
    /\ \A k \in DOMAIN sim.event_data :
          \A i \in DOMAIN sim.event_data[k].probs : sim.event_data[k].probs[i][2] > 0
    /\ CanPlace(Run) =>
          \A draw \in 0..(DrawSteps - 1) :
              ChosenIdx(sim.remaining_entries, draw, RemainingTotal(sim.remaining_entries), 0, 1)
                  \in DOMAIN sim.remaining_entries
    /\ \A t \in DOMAIN win_counts : win_counts[t] > 0 => TotalCredit > 0

\* the placement loop of the current event is over
EventOver == pc = "wp_place" /\ ~Placing(sim)

\* an event without a named entrant places nobody, one with a single named
\* entrant places that entrant first and nobody else
DegenerateOver ==
    EventOver =>
        /\ Len(CurrentEvent.ranked) = 0 => sim.placed = <<>> /\ sim.place = 1
        /\ Len(CurrentEvent.ranked) = 1 => sim.placed = CurrentEvent.ranked /\ sim.place = 2

\* a step of the placement loop
PlacementStep ==
    pc = "wp_place" /\ pc' = "wp_place" /\ sim'.ev = sim.ev /\ sim'.place # sim.place

\* the team of the single named entrant of the current event
SingleTeam == state.events[CurrentEvent.event].entries[CurrentEvent.ranked[1]].team

\* no placement is made in an event without a named entrant, and the one made in
\* an event with a single named entrant adds points(1) to that entrant's team
DegeneratePlacement ==
    PlacementStep =>
        /\ Len(CurrentEvent.ranked) # 0
        /\ Len(CurrentEvent.ranked) = 1 =>
              /\ sim'.sim_scores[SingleTeam] = sim.sim_scores[SingleTeam] + PointsGet(1)
              /\ \A t \in DOMAIN sim.sim_scores :
                    t # SingleTeam => sim'.sim_scores[t] = sim.sim_scores[t]

\* C16: compute_win_probability never divides by zero or indexes out of range
\* on a degenerate event: a final whose entrants are all unnamed contributes no
\* points in any trial, and a final with one named entrant gives that entrant
\* place 1 and points(1) in every trial.
C16_DegenerateEvents ==
    /\ [](Simulating => NoFault /\ DegenerateOver)
    /\ [][DegeneratePlacement]_vars

\* a trial has been tallied on a snapshot with a final of unnamed entrants only
\* and a final with one named entrant
C16_Witness ==
    /\ Simulating
    /\ trials > 0
    /\ \E k \in DOMAIN sim.event_data :
          Len(sim.event_data[k].ranked) = 0 /\ state.events[sim.event_data[k].event].entries # <<>>
    /\ \E k \in DOMAIN sim.event_data : Len(sim.event_data[k].ranked) = 1

-----------------------------------------------------------------------------
(* C17: the placement loop                                                 *)

\* the named entrants of the current event
NamedEntrants ==
    {i \in DOMAIN state.events[CurrentEvent.event].entries :
        state.events[CurrentEvent.event].entries[i].name # ""}

\* the selections made so far got the places 1, 2, ... in turn, each a named
\* entrant not selected before, and the loop ends on the min(8, n)th
PlacedInTurn ==
    pc = "wp_place" =>
        /\ sim.place = Len(sim.placed) + 1
        /\ \A i \in DOMAIN sim.placed : sim.placed[i] \in NamedEntrants
        /\ \A i, j \in DOMAIN sim.placed : i # j => sim.placed[i] # sim.placed[j]
        /\ Len(sim.placed) <= Min(8, Cardinality(NamedEntrants))
        /\ ~Placing(sim) <=> Len(sim.placed) = Min(8, Cardinality(NamedEntrants))

\* every turn of the loop makes one selection and moves to the next place
OneSelectionATurn ==
    PlacementStep =>
        /\ sim'.place = sim.place + 1
        /\ Len(sim'.placed) = Len(sim.placed) + 1
        /\ \A i \in DOMAIN sim.placed : sim'.placed[i] = sim.placed[i]

\* C17: for an event with n named entrants the placement loop ends after
\* exactly min(8, n) selections, giving the places 1..min(8, n) in increasing
\* order to pairwise distinct entrants, whatever the draws.
C17_PlacementLoop == []PlacedInTurn /\ [][OneSelectionATurn]_vars

\* the loop has stopped at eight selections with a ninth named entrant left
C17_Witness ==
    /\ EventOver
    /\ Cardinality(NamedEntrants) > 8
    /\ Len(sim.placed) = 8
    /\ sim.remaining_entries # <<>>

-----------------------------------------------------------------------------
(* C18: the trials are independent                                         *)

\* a trial under way looks exactly like the trial run alone
TrialAsAlone ==
    (Simulating /\ pc = "wp_place") =>
        /\ sim.sim_scores = twin.sim.sim_scores
        /\ sim.remaining_entries = twin.sim.remaining_entries
        /\ sim.place = twin.sim.place
        /\ sim.ev = twin.sim.ev

\* a trial starts every team on its actual points and the first event on its
\* full list
TrialFromActual ==
    (pc = "wp_trial" /\ pc' = "wp_place") =>
        /\ sim'.sim_scores = [t \in sim.all_teams |-> ActualPoints(actual, t)]
        /\ sim'.remaining_entries = Zip(sim.event_data[1])
        /\ sim'.event_data = sim.event_data

\* the credit a trial adds is the credit of the trial run alone
TallyAddsAlone ==
    (pc = "wp_place" /\ pc' = "wp_trial") =>
        \A t \in sim.all_teams :
            CreditOf(win_counts', t) = CreditOf(win_counts, t) + CreditOf(twin'.win_counts, t)

\* merging this trial's credit and then any other trial's gives the same
\* counts as merging them the other way round
MergesCommute ==
    CanTally(Run) =>
        \A others \in SUBSET sim.all_teams :
            CreditLeaders(CreditLeaders(win_counts, Leaders(sim.sim_scores, sim.order)), others)
              = CreditLeaders(CreditLeaders(win_counts, others),
                              Leaders(sim.sim_scores, sim.order))

-----------------------------------------------------------------------------
(* C19: the scenario builder and the seed projection agree                 *)

\* every entry of team t in an upcoming final is named
AllNamed(t) ==
    \A e \in UpcomingSet :
        \A i \in DOMAIN state.events[e].entries :
            state.events[e].entries[i].team = t => state.events[e].entries[i].name # ""

\* C19: for a team all of whose entries are named, on a snapshot where no two
\* entrants of an upcoming final have seed keys within 0.001, scenario_a of
\* compute_team_scenarios equals the team's seed projection (its actual points
\* where the projection holds no value for it).
C19_SeedsHoldIsProjection ==
    (pc = "scenario" /\ NoNearTies /\ AllNamed(team)) =>
        scenarios.scenario_a * PointsUnit = ProjectionOf(team)

\* the team has two named entrants in a final with another team's, one of them
\* seeded behind the eighth place, and points to gain
C19_Witness ==
    /\ pc = "scenario"
    /\ NoNearTies
    /\ AllNamed(team)
    /\ scenarios.scenario_a > scenarios.current
    /\ scenarios.current > 0
    /\ \E e \in UpcomingSet :
          /\ Cardinality(NamedOf(state.events[e], team)) >= 2
          /\ Cardinality(NamedSet(state.events[e])) > 8
          /\ \E i \in DOMAIN state.events[e].entries :
                /\ state.events[e].entries[i].team = team
                /\ RankOrNine(_rank_entries_by_seed(state.events[e]), i) > 8
          /\ \E u \in EventTeams(state.events[e]) : u # team

====
